---- MODULE Spec2Model ----
(***************************************************************************)
(* The tree-walking evaluator of sag: `evals`/`eval` (src/evals/mod.rs),   *)
(* `block_node`, `function_node`, `function_call_node`                     *)
(* (src/evals/function_node.rs), over the scope-stack environment.         *)
(*                                                                         *)
(* An evaluation is a big step: eval(ast, env) yields an outcome record    *)
(*   [st, v, env, err]                                                     *)
(* st = "ok"    : the value v, and the environment after the evaluation;   *)
(* st = "err"   : a RuntimeError err (the Err of mod.rs's Result);         *)
(* st = "panic" : a Rust panic with message err; v and env are the local   *)
(*                `result` and the environment at the point of the panic.  *)
(* The driver `evals` is the state machine: one step per statement.        *)
(***************************************************************************)
EXTENDS Integers, Sequences, FiniteSets, TLC

\* ------------------------------------------------------------------ bounds
MaxVal == 1
MaxProgLen == 3

Vals == 0..MaxVal

\* ------------------------------------------------------------------ Value
Number(n) == [t |-> "Number", n |-> n]
Void == [t |-> "Void"]
ReturnValue(v) == [t |-> "Return", v |-> v]
FunctionValue == [t |-> "Function"]
ListValue(items) == [t |-> "List", items |-> items]
LambdaValue(arguments, body, env) ==
    [t |-> "Lambda", arguments |-> arguments, body |-> body, env |-> env]

\* Option::None of Env::get, get_function, get_builtin
None == [t |-> "None"]

\* the runtime type of a value (Value::value_type)
value_type_of(value) == value.t

\* ------------------------------------------------------------------ ASTNode
Literal(value) == [k |-> "Literal", value |-> value]
\* value_type is the Option<ValueType> of the node: "None", or the declared type
TypedVariable(name, value_type) ==
    [k |-> "Variable", name |-> name, value_type |-> value_type]
Variable(name) == TypedVariable(name, "None")
BinaryOp(left, right) == [k |-> "BinaryOp", left |-> left, right |-> right]
Assign(name, value, variable_type, is_new) ==
    [k |-> "Assign", name |-> name, value |-> value,
     variable_type |-> variable_type, is_new |-> is_new]
Block(nodes) == [k |-> "Block", nodes |-> nodes]
Return(expr) == [k |-> "Return", expr |-> expr]
For(variable, iterable, body) ==
    [k |-> "For", variable |-> variable, iterable |-> iterable, body |-> body]
Function(name, arguments, body) ==
    [k |-> "Function", name |-> name, arguments |-> arguments, body |-> body]
FunctionCallArgs(args) == [k |-> "FunctionCallArgs", args |-> args]
FunctionCall(name, arguments) ==
    [k |-> "FunctionCall", name |-> name, arguments |-> arguments]
Lambda(arguments, body) ==
    [k |-> "Lambda", arguments |-> arguments, body |-> body]
Continue == [k |-> "Continue"]

\* ------------------------------------------------------------------ outcomes
Ok(v, env) == [st |-> "ok", v |-> v, env |-> env, err |-> "none"]
Err(msg, env) == [st |-> "err", v |-> Void, env |-> env, err |-> msg]
Panic(msg, v, env) == [st |-> "panic", v |-> v, env |-> env, err |-> msg]

ReassignImmutable == "Cannot reassign to immutable variable"
UndefinedVariable == "Undefined variable"
UnsupportedOperation == "Unsupported operation"
Unsupported == "Unsupported ast node"
ArityMismatch == "does not match arguments length"
IlligalParam == "illigal param"
IlligalArguments == "illigal arguments"
FunctionIsMissing == "Function is missing"
UnexpectedValueType == "Unexpected value type"
BorrowMutError == "already borrowed: BorrowMutError"

\* ------------------------------------------------------------------ Env
EmptyMap == [n \in {} |-> None]
Put(m, key, x) == [n \in (DOMAIN m) \cup {key} |-> IF n = key THEN x ELSE m[n]]

Frame(label, vars) == [label |-> label, vars |-> vars]
Slot(value, variable_type, value_type) ==
    [value |-> value, variable_type |-> variable_type, value_type |-> value_type]
FunctionInfo(arguments, body, builtin) ==
    [arguments |-> arguments, body |-> body, builtin |-> builtin]

\* FunctionInfo.builtin: Some(native callable)
NativeFn == [t |-> "Native"]

\* the out-of-scope native callable of the one registered builtin: it is
\* handed the evaluated argument values and its result shows what it was handed
native_fn(args) == ListValue(args)

BuiltinName == "builtin_fn"
register_builtins ==
    Put(EmptyMap, BuiltinName, FunctionInfo(<<Variable("a")>>, None, NativeFn))

EnvNew ==
    [scope_stack |-> <<Frame("global", EmptyMap)>>,
     functions |-> EmptyMap,
     builtins |-> register_builtins]

enter_scope(env, label) ==
    [env EXCEPT !.scope_stack = Append(@, Frame(label, EmptyMap))]

\* the global frame lives as long as the process
leave_scope(env) ==
    IF Len(env.scope_stack) > 1
    THEN [env EXCEPT !.scope_stack = SubSeq(@, 1, Len(@) - 1)]
    ELSE env

\* the slot of `name` in the innermost frame, among frames 1..i, that binds it
RECURSIVE lookup(_, _, _)
lookup(stack, name, i) ==
    IF i = 0 THEN None
    ELSE IF name \in DOMAIN stack[i].vars THEN stack[i].vars[name]
    ELSE lookup(stack, name, i - 1)

\* the index of that frame, 0 when no frame binds it
RECURSIVE lookup_frame(_, _, _)
lookup_frame(stack, name, i) ==
    IF i = 0 THEN 0
    ELSE IF name \in DOMAIN stack[i].vars THEN i
    ELSE lookup_frame(stack, name, i - 1)

\* expected = "Any" stands for the None of expected_type
get(env, name, expected) ==
    LET slot == lookup(env.scope_stack, name, Len(env.scope_stack))
    IN  IF slot = None THEN None
        ELSE IF expected # "Any" /\ value_type_of(slot.value) # expected THEN None
        ELSE slot

\* [ok, env]: a reassignment of an Immutable binding is refused; every other
\* set writes the slot into the innermost frame
set(env, name, value, variable_type, value_type, is_new) ==
    LET existing == get(env, name, "Any")
        top == Len(env.scope_stack)
    IN  IF ~is_new /\ existing # None /\ existing.variable_type = "Immutable"
        THEN [ok |-> FALSE, env |-> env]
        ELSE [ok |-> TRUE,
              env |-> [env EXCEPT !.scope_stack[top].vars =
                          Put(@, name, Slot(value, variable_type, value_type))]]

register_function(env, name, info) ==
    [env EXCEPT !.functions = Put(@, name, info)]
get_function(env, name) ==
    IF name \in DOMAIN env.functions THEN env.functions[name] ELSE None
get_builtin(env, name) ==
    IF name \in DOMAIN env.builtins THEN env.builtins[name] ELSE None

\* merge-back: the value of every binding of child's innermost frame (the one
\* the call pushed) whose name is also bound in a frame of self below that
\* frame goes into that pre-existing binding; its mutability stays
RECURSIVE merge_names(_, _, _, _)
merge_names(stack, below, vars, names) ==
    IF names = {} THEN stack
    ELSE LET name == CHOOSE n \in names : TRUE
             i == lookup_frame(stack, name, below)
             next == IF i = 0 THEN stack
                     ELSE [stack EXCEPT ![i].vars[name].value = vars[name].value]
         IN  merge_names(next, below, vars, names \ {name})

update_global_env(self, child) ==
    LET pushed == Len(child.scope_stack)
        top == child.scope_stack[pushed]
        below == IF Len(self.scope_stack) < pushed
                 THEN Len(self.scope_stack) ELSE pushed - 1
    IN  [self EXCEPT !.scope_stack = merge_names(@, below, top.vars, DOMAIN top.vars)]

\* ------------------------------------------------------------------ Rc<RefCell<Env>>
\* function_call_node holds two handles, `env` and `local_env = env.clone()`.
\* A handle names a RefCell; Rc::clone yields a handle to the same RefCell.
EnvCell == 1
Rc_clone(cell) == cell

\* the Envs seen through the two handles; one Env when the handles share a cell
Handles(env, env_cell, local_cell) ==
    [caller |-> env, local |-> env, shared |-> (env_cell = local_cell)]
OnLocal(p, e) ==
    [p EXCEPT !.local = e, !.caller = IF p.shared THEN e ELSE @]
OnCaller(p, e) ==
    [p EXCEPT !.caller = e, !.local = IF p.shared THEN e ELSE @]

\* a.borrow_mut() while b.borrow_mut() is alive panics when both name one RefCell
double_borrow_mut(a_cell, b_cell) == a_cell = b_cell

\* ------------------------------------------------------------------ eval
RECURSIVE eval(_, _)
RECURSIVE block_node(_, _, _)
RECURSIVE eval_builtin_args(_, _, _, _)
RECURSIVE bind_params(_, _, _, _)
RECURSIVE for_loop(_, _, _, _, _)
RECURSIVE function_call_node(_, _, _)
RECURSIVE assign_node(_, _, _, _, _)

\* value_type.unwrap_or(ValueType::Any)
unwrap_or_any(value_type) == IF value_type = "None" THEN "Any" ELSE value_type

\* every parameter node is an ASTNode::Variable
params_are_variables(arguments) ==
    \A i \in 1..Len(arguments) : arguments[i].k = "Variable"

function_node(name, arguments, body, env) ==
    Ok(FunctionValue, register_function(env, name, FunctionInfo(arguments, body, None)))

\* what block_node returns for a statement that evaluated to Value::Return(v)
block_return(v) == v

\* statements i.. of a block, in order
block_node(statements, i, env) ==
    IF i > Len(statements) THEN Ok(Void, env)
    ELSE LET r == eval(statements[i], env)
         IN  IF r.st # "ok" THEN r
             ELSE IF r.v.t = "Return" THEN Ok(block_return(r.v.v), r.env)
             ELSE block_node(statements, i + 1, r.env)

\* args_vec.iter().map(|arg| eval(arg, env)).collect(): [st, vs, env, err]
eval_builtin_args(args, i, vs, env) ==
    IF i > Len(args) THEN [st |-> "ok", vs |-> vs, env |-> env, err |-> "none"]
    ELSE LET r == eval(args[i], env)
         IN  IF r.st # "ok" THEN [st |-> r.st, vs |-> vs, env |-> r.env, err |-> r.err]
             ELSE eval_builtin_args(args, i + 1, Append(vs, r.v), r.env)

\* a parameter bound Mutable
param_variable_type_mutable == "Mutable"

\* the mutability a parameter is bound with: EnvVariableType::Immutable
param_variable_type == "Immutable"

\* for (param, arg) in params_vec.iter().zip(&args_vec): the argument is
\* evaluated through `env`, the parameter is set through `local_env`, the
\* Result of set is dropped (`let _ =`): [st, p, err]
bind_params(params, args, i, p) ==
    IF i > Len(params) \/ i > Len(args) THEN [st |-> "ok", p |-> p, err |-> "none"]
    ELSE LET a == eval(args[i], p.caller)
             p1 == OnCaller(p, a.env)
         IN  IF a.st # "ok" THEN [st |-> a.st, p |-> p1, err |-> a.err]
             ELSE bind_params(params, args, i + 1,
                     OnLocal(p1, set(p1.local, params[i].name, a.v, param_variable_type,
                                     unwrap_or_any(params[i].value_type), TRUE).env))

\* a builtin branch that pushes a scope for the call, as the other branches do
call_builtin_in_scope(function, args_vec, env) ==
    LET a == eval_builtin_args(args_vec, 1, <<>>, enter_scope(env, "builtin"))
    IN  IF a.st = "ok" THEN Ok(native_fn(a.vs), a.env)
        ELSE [st |-> a.st, v |-> Void, env |-> a.env, err |-> a.err]

\* the builtin branch: the native callable is called with the evaluated arguments
call_builtin(function, args_vec, env) ==
    LET a == eval_builtin_args(args_vec, 1, <<>>, env)
    IN  IF a.st = "ok" THEN Ok(native_fn(a.vs), a.env)
        ELSE [st |-> a.st, v |-> Void, env |-> a.env, err |-> a.err]

\* the user-function branch, arguments counted
call_function(name, function, args_vec, env) ==
    LET local_cell == Rc_clone(EnvCell)
        p0 == Handles(env, EnvCell, local_cell)
        p1 == OnLocal(p0, enter_scope(p0.local, name))
        b == bind_params(function.arguments, args_vec, 1, p1)
    IN  IF b.st # "ok" THEN [st |-> b.st, v |-> Void, env |-> b.p.caller, err |-> b.err]
        ELSE
        LET result == eval(function.body, b.p.local)
            p2 == OnLocal(b.p, result.env)
        IN  IF result.st # "ok" THEN [result EXCEPT !.env = p2.caller]
            ELSE IF double_borrow_mut(EnvCell, local_cell)
            THEN Panic(BorrowMutError, result.v, p2.caller)
            ELSE
            LET p3 == OnCaller(p2, update_global_env(p2.caller, p2.local))
                p4 == OnLocal(p3, leave_scope(p3.local))
            IN  Ok(IF result.v.t = "Return" THEN result.v.v ELSE result.v, p4.caller)

\* the branch of a variable bound to a Value::Lambda, arguments counted;
\* the lambda's own env (lambda.env) is matched out of the value and not used
call_lambda(name, lambda, args_vec, env) ==
    LET local_cell == Rc_clone(EnvCell)
        p0 == Handles(env, EnvCell, local_cell)
        p1 == OnLocal(p0, enter_scope(p0.local, name))
        b == bind_params(lambda.arguments, args_vec, 1, p1)
    IN  IF b.st # "ok" THEN [st |-> b.st, v |-> Void, env |-> b.p.caller, err |-> b.err]
        ELSE
        LET result == eval(lambda.body, b.p.local)
            p2 == OnLocal(b.p, result.env)
        IN  IF result.st # "ok" THEN [result EXCEPT !.env = p2.caller]
            ELSE IF double_borrow_mut(EnvCell, local_cell)
            THEN Panic(BorrowMutError, result.v, p2.caller)
            ELSE
            LET p3 == OnCaller(p2, update_global_env(p2.caller, p2.local))
                p4 == OnCaller(p3, leave_scope(p3.caller))
            IN  Ok(result.v, p4.caller)

\* a resolution that looks into the builtin table first
resolve_builtin_first(env, name) ==
    IF get_builtin(env, name) # None
    THEN get_builtin(env, name) ELSE get_function(env, name)

\* `function`: the user function of that name, else the builtin of that name
resolve_function(env, name) ==
    IF get_function(env, name) # None
    THEN get_function(env, name) ELSE get_builtin(env, name)

function_call_node(name, arguments, env) ==
    IF get_function(env, name) # None \/ get_builtin(env, name) # None
    THEN LET function == resolve_function(env, name)
         IN  IF ~params_are_variables(function.arguments)
             THEN Panic(IlligalParam, Void, env)
             ELSE IF arguments.k # "FunctionCallArgs"
             THEN Panic(IlligalArguments, Void, env)
             ELSE IF function.builtin # None
             THEN call_builtin(function, arguments.args, env)
             ELSE IF Len(arguments.args) # Len(function.arguments)
             THEN Panic(ArityMismatch, Void, env)
             ELSE call_function(name, function, arguments.args, env)
    ELSE IF get(env, name, "Lambda") # None
    THEN LET lambda == get(env, name, "Any").value
         IN  IF lambda.t # "Lambda" THEN Panic(UnexpectedValueType, Void, env)
             ELSE IF ~params_are_variables(lambda.arguments)
             THEN Panic(IlligalParam, Void, env)
             ELSE IF arguments.k # "FunctionCallArgs"
             THEN Panic(IlligalArguments, Void, env)
             ELSE IF Len(arguments.args) # Len(lambda.arguments)
             THEN Panic(ArityMismatch, Void, env)
             ELSE call_lambda(name, lambda, arguments.args, env)
    ELSE Panic(FunctionIsMissing, Void, env)

\* assign_node: the value is evaluated, then bound by Env::set
assign_node(name, value, variable_type, is_new, env) ==
    LET r == eval(value, env)
    IN  IF r.st # "ok" THEN r
        ELSE LET s == set(r.env, name, r.v, variable_type, value_type_of(r.v), is_new)
             IN  IF s.ok THEN Ok(r.v, s.env) ELSE Err(ReassignImmutable, r.env)

\* the Assign arm with is_new lost on the way to assign_node
eval_assign_always_new(ast, env) ==
    assign_node(ast.name, ast.value, ast.variable_type, TRUE, env)

\* an Assign arm that takes is_new = false as a reassignment of a bound name
eval_assign_bound_only(ast, env) ==
    IF ~ast.is_new /\ get(env, ast.name, "Any") = None
    THEN Err(UndefinedVariable, env)
    ELSE assign_node(ast.name, ast.value, ast.variable_type, ast.is_new, env)

\* the Assign arm of eval: the node's value_type is dropped
eval_assign(ast, env) ==
    assign_node(ast.name, ast.value, ast.variable_type, ast.is_new, env)

variable_node(name, env) ==
    LET slot == get(env, name, "Any")
    IN  IF slot = None THEN Err(UndefinedVariable, env) ELSE Ok(slot.value, env)

\* binary_op for TokenKind::Plus: the sum of two Numbers
binary_op(left, right, env) ==
    LET l == eval(left, env)
    IN  IF l.st # "ok" THEN l
        ELSE LET r == eval(right, l.env)
             IN  IF r.st # "ok" THEN r
                 ELSE IF l.v.t = "Number" /\ r.v.t = "Number"
                 THEN Ok(Number(l.v.n + r.v.n), r.env)
                 ELSE Err(UnsupportedOperation, r.env)

\* for_node: one loop scope; each element rebinds the loop variable as a new
\* Immutable slot; a body that evaluates to Value::Return ends the loop with it
for_loop(variable, items, i, body, env) ==
    IF i > Len(items) THEN Ok(Void, leave_scope(env))
    ELSE LET e1 == set(env, variable, items[i], "Immutable", "Any", TRUE).env
             r == eval(body, e1)
         IN  IF r.st # "ok" THEN r
             ELSE IF r.v.t = "Return" THEN Ok(r.v, leave_scope(r.env))
             ELSE for_loop(variable, items, i + 1, body, r.env)

for_node(variable, iterable, body, env) ==
    LET it == eval(iterable, env)
    IN  IF it.st # "ok" THEN it
        ELSE IF it.v.t # "List" THEN Err(UnsupportedOperation, it.env)
        ELSE for_loop(variable, it.v.items, 1, body, enter_scope(it.env, "for"))

eval(ast, env) ==
    CASE ast.k = "Literal" -> Ok(ast.value, env)
      [] ast.k = "Function" -> function_node(ast.name, ast.arguments, ast.body, env)
      [] ast.k = "Lambda" -> Ok(LambdaValue(ast.arguments, ast.body, env), env)
      [] ast.k = "Block" -> block_node(ast.nodes, 1, env)
      [] ast.k = "Return" ->
            LET r == eval(ast.expr, env)
            IN  IF r.st # "ok" THEN r ELSE Ok(ReturnValue(r.v), r.env)
      [] ast.k = "For" -> for_node(ast.variable, ast.iterable, ast.body, env)
      [] ast.k = "Assign" -> eval_assign(ast, env)
      [] ast.k = "FunctionCall" -> function_call_node(ast.name, ast.arguments, env)
      [] ast.k = "Variable" -> variable_node(ast.name, env)
      [] ast.k = "BinaryOp" -> binary_op(ast.left, ast.right, env)
      [] OTHER -> Err(Unsupported, env)

\* ------------------------------------------------------------------ programs
Num(n) == Literal(Number(n))
Call(name, args) == FunctionCall(name, FunctionCallArgs(args))
Plus3(a, b, c) == BinaryOp(BinaryOp(a, b), c)

\* mod.rs tests test_scope_and_global_variable, test_global_variable_and_functions
global_z(v) == Assign("z", Num(v), "Mutable", TRUE)
f1 ==
    Function("f1", <<TypedVariable("x", "Number"), TypedVariable("y", "Number")>>,
        Block(<<Assign("z", Num(2), "Mutable", FALSE),
                Assign("d", Num(3), "Mutable", TRUE),
                Assign("z", Assign("d", Num(4), "Mutable", FALSE), "Mutable", FALSE),
                Return(Plus3(Variable("x"), Variable("y"), Variable("z")))>>))
f2 ==
    Function("f2", <<TypedVariable("x", "Number"), TypedVariable("y", "Number")>>,
        Return(Plus3(Variable("x"), Variable("y"), Variable("z"))))
call_f1 == Call("f1", <<Num(2), Num(0)>>)
call_f2 == Call("f2", <<Num(2), Num(0)>>)

\* mod.rs test test_scope_management_in_function
add_and_return ==
    Function("add_and_return", <<TypedVariable("a", "Number")>>,
        Block(<<Assign("local_var", Num(10), "Mutable", TRUE),
                Return(BinaryOp(Variable("a"), Variable("local_var")))>>))
call_add_and_return(v) == Call("add_and_return", <<Num(v)>>)

\* mod.rs test test_function_call_argument_mismatch
bar == Function("bar", <<TypedVariable("x", "Number")>>, Return(Variable("x")))
call_bar(args) == Call("bar", args)

\* statements every program may hold, in any order
AssignZ ==
    {Assign("z", Num(v), m, n) : v \in Vals, m \in {"Mutable", "Immutable"},
                                n \in BOOLEAN}
Pool == AssignZ \cup {Continue, Return(Num(0)), Call(BuiltinName, <<Variable("z")>>)}

SeqsUpTo(S, n) == UNION {[1..m -> S] : m \in 0..n}

\* a lambda bound to g: \x => x + z, \x => y, \x => return x
lambda_g(body) == Assign("g", Lambda(<<Variable("x")>>, body), "Immutable", TRUE)

leak_back == <<global_z(3), f1, f2, call_f1, call_f2>>
scope_management(v) == <<add_and_return, call_add_and_return(v)>>
argument_mismatch == <<bar, call_bar(<<Num(5), Num(10)>>)>>
builtin_mismatch(a, b) == <<Call(BuiltinName, <<Num(a), Num(b)>>)>>
lambda_mismatch == <<lambda_g(Variable("x")), Call("g", <<>>)>>
overwrite(a, b) ==
    <<Assign("z", Num(a), "Mutable", TRUE), Assign("z", Num(b), "Mutable", FALSE),
      Assign("z", Num(a), "Immutable", TRUE), Assign("z", Num(b), "Mutable", FALSE)>>
block_return_first(v) == <<Block(<<Return(Num(v)), global_z(v)>>)>>
block_nested(a, b) == <<Block(<<Block(<<Return(Num(a))>>), global_z(b)>>)>>
for_return(a, b) ==
    <<For("i", Literal(ListValue(<<Number(a), Number(b)>>)),
          Block(<<Return(Variable("i"))>>))>>
lambda_capture(a, b) ==
    <<global_z(a), lambda_g(BinaryOp(Variable("x"), Variable("z"))),
      Assign("z", Num(b), "Mutable", FALSE), Call("g", <<Num(0)>>)>>
lambda_call_site(v) ==
    <<lambda_g(Variable("y")), Assign("y", Num(v), "Mutable", TRUE),
      Call("g", <<Num(0)>>)>>
lambda_return(v) == <<lambda_g(Return(Variable("x"))), Call("g", <<Num(v)>>)>>

\* calls that name nothing, or carry a malformed parameter or argument node
undefined_call == <<Call("h", <<>>)>>
malformed_arguments == <<bar, FunctionCall("bar", Num(0))>>
malformed_param == <<Function("q", <<Num(0)>>, Num(0)), Call("q", <<Num(0)>>)>>
bare_args == <<FunctionCallArgs(<<Num(0)>>)>>
argument_error == <<bar, call_bar(<<Variable("q")>>)>>

\* one name in two places: a user function named as the builtin; a variable
\* holding a lambda named as the builtin; a variable holding a lambda named as
\* the user function bar
user_over_builtin(v) ==
    <<Function(BuiltinName, <<Variable("a")>>, Return(Num(v))),
      Call(BuiltinName, <<Num(0)>>)>>
builtin_over_lambda(a, b) ==
    <<Assign(BuiltinName, Lambda(<<Variable("x")>>, Num(a)), "Immutable", TRUE),
      Call(BuiltinName, <<Num(b)>>)>>
function_over_lambda(a, b) ==
    <<bar, Assign("bar", Lambda(<<Variable("x")>>, Num(a)), "Immutable", TRUE),
      call_bar(<<Num(b)>>)>>

\* a body that reassigns its parameter: fn p(x: Number) { x = b; return x }
\* called as p(a), and g = \x => { x = b } called as g(a)
param_reassign(a, b) ==
    <<Function("p", <<TypedVariable("x", "Number")>>,
          Block(<<Assign("x", Num(b), "Mutable", FALSE), Return(Variable("x"))>>)),
      Call("p", <<Num(a)>>)>>
lambda_param_reassign(a, b) ==
    <<lambda_g(Block(<<Assign("x", Num(b), "Mutable", FALSE)>>)),
      Call("g", <<Num(a)>>)>>

\* a top-level binding, then a statement that fails, then another binding
stop_at_failure(a, b) == <<global_z(a), Continue, global_z(b)>>

\* fn f(x, y) { return y } called as f(b, x), with a caller's x = a and with none
f_xy == Function("f", <<Variable("x"), Variable("y")>>, Return(Variable("y")))
later_argument(a, b) ==
    <<Assign("x", Num(a), "Mutable", TRUE), f_xy, Call("f", <<Num(b), Variable("x")>>)>>
later_argument_unbound(b) == <<f_xy, Call("f", <<Num(b), Variable("x")>>)>>

\* an Immutable x = a of the caller, shadowed by the parameter x of bar(b), and
\* by the local x = b that fn s() { x = b (new); return x } declares
shadow_param(a, b) ==
    <<Assign("x", Num(a), "Immutable", TRUE), bar, call_bar(<<Num(b)>>)>>
shadow_local(a, b) ==
    <<Assign("x", Num(a), "Immutable", TRUE),
      Function("s", <<>>, Block(<<Assign("x", Num(b), "Mutable", TRUE),
                                  Return(Variable("x"))>>)),
      Call("s", <<>>)>>

Scenarios ==
    {leak_back, argument_mismatch, lambda_mismatch}
    \cup {later_argument(a, b) : a, b \in Vals}
    \cup {later_argument_unbound(b) : b \in Vals}
    \cup {shadow_param(a, b) : a, b \in Vals}
    \cup {shadow_local(a, b) : a, b \in Vals}
    \cup {undefined_call, malformed_arguments, malformed_param, bare_args,
          argument_error}
    \cup {user_over_builtin(v) : v \in Vals}
    \cup {builtin_over_lambda(a, b) : a, b \in Vals}
    \cup {function_over_lambda(a, b) : a, b \in Vals}
    \cup {param_reassign(a, b) : a, b \in Vals}
    \cup {lambda_param_reassign(a, b) : a, b \in Vals}
    \cup {scope_management(v) : v \in Vals}
    \cup {builtin_mismatch(a, b) : a, b \in Vals}
    \cup {overwrite(a, b) : a, b \in Vals}
    \cup {block_return_first(v) : v \in Vals}
    \cup {block_nested(a, b) : a, b \in Vals}
    \cup {for_return(a, b) : a, b \in Vals}
    \cup {lambda_capture(a, b) : a, b \in Vals}
    \cup {lambda_call_site(v) : v \in Vals}
    \cup {lambda_return(v) : v \in Vals}

Programs == SeqsUpTo(Pool, MaxProgLen) \cup Scenarios

\* ------------------------------------------------------------------ Parser
\* Parser::parse_lambda (src/parsers/lambda_ast.rs) and
\* Parser::parse_return_type (src/parsers/return_ast.rs) over a token cursor.
MaxTokens == 4

Tok(kind) == [kind |-> kind, text |-> ""]
Identifier(text) == [kind |-> "Identifier", text |-> text]
\* the None of get_current_token
NoToken == Tok("None")

\* ValueType as the parser builds it
ValueTypeVoid == [t |-> "Void"]
OptionType(some) == [t |-> "OptionType", some |-> some]
ResultType(success, failure) ==
    [t |-> "ResultType", success |-> success, failure |-> failure]
ValueTypeList(element_type) == [t |-> "List", element_type |-> element_type]
string_to_value_type(type_name) == [t |-> "Named", name |-> type_name]

get_current_token(ts, p) == IF p >= 1 /\ p <= Len(ts) THEN ts[p] ELSE NoToken
consume_token(ts, p) == p + 1
\* the cursor after extract_token(kind): it moves over a token of that kind
\* only; the callers modelled here drop what extract_token returns
extract_token(ts, p, kind) ==
    IF get_current_token(ts, p).kind = kind THEN p + 1 ELSE p

\* the parser's own scopes
ParserScope(label, names) == [label |-> label, names |-> names]
ParserScopes0 == <<ParserScope("global", {})>>
parser_enter_scope(scopes, label) == Append(scopes, ParserScope(label, {}))
parser_leave_scope(scopes) ==
    IF Len(scopes) > 1 THEN SubSeq(scopes, 1, Len(scopes) - 1) ELSE scopes
register_variables(scopes, name) ==
    [scopes EXCEPT ![Len(scopes)].names = @ \cup {name}]

\* Some(string_to_value_type(type_name)) when the current token is an
\* identifier, else None
value_type_here(ts, p) ==
    IF get_current_token(ts, p).kind = "Identifier"
    THEN string_to_value_type(get_current_token(ts, p).text) ELSE None

\* no node: the body of a lambda not parsed yet, or of a failed parse
NoNode == [k |-> "None"]

\* parse_expression(0) at a token that starts no lambda: [ok, node, pos]
parse_expression(ts, p) ==
    LET token == get_current_token(ts, p)
    IN  CASE token.kind = "Number" ->
                [ok |-> TRUE, node |-> Literal(Number(0)), pos |-> p + 1]
          [] token.kind = "Identifier" ->
                [ok |-> TRUE, node |-> Variable(token.text), pos |-> p + 1]
          [] OTHER -> [ok |-> FALSE, node |-> NoNode, pos |-> p]

\* the statements of a block from position p up to the closing brace
RECURSIVE parse_statements(_, _, _)
parse_statements(ts, p, nodes) ==
    IF get_current_token(ts, p).kind = "RBrace"
    THEN [ok |-> TRUE, node |-> Block(nodes), pos |-> p + 1]
    ELSE LET e == parse_expression(ts, p)
         IN  IF e.ok THEN parse_statements(ts, e.pos, Append(nodes, e.node))
             ELSE e

\* parse_block at a left brace
parse_block(ts, p) == parse_statements(ts, p + 1, <<>>)

\* the type argument of Option<..>, Result<..>, List<..>: [value_type, pos]
type_argument(ts, p) ==
    IF get_current_token(ts, p).kind = "Identifier"
    THEN [value_type |-> string_to_value_type(get_current_token(ts, p).text),
          pos |-> consume_token(ts, p)]
    ELSE [value_type |-> ValueTypeVoid, pos |-> p]

\* a parse_return_type that gives up a malformed Option, Result or List
parse_return_type_void_on_malformed(ts, p) ==
    IF get_current_token(ts, p).kind # "Colon"
    THEN [value_type |-> ValueTypeVoid, pos |-> p]
    ELSE
    LET p1 == consume_token(ts, p)
        kind == get_current_token(ts, p1).kind
        k(i) == get_current_token(ts, p1 + i).kind
        name(i) == string_to_value_type(get_current_token(ts, p1 + i).text)
    IN  CASE kind = "Identifier" ->
                [value_type |-> name(0), pos |-> p1 + 1]
          [] kind \in {"Option", "List"} ->
                IF k(1) = "Lt" /\ k(2) = "Identifier" /\ k(3) = "Gt"
                THEN [value_type |-> IF kind = "Option" THEN OptionType(name(2))
                                     ELSE ValueTypeList(name(2)),
                      pos |-> p1 + 4]
                ELSE [value_type |-> ValueTypeVoid, pos |-> p1 + 1]
          [] kind = "Result" ->
                IF /\ k(1) = "Lt" /\ k(2) = "Identifier" /\ k(3) = "Comma"
                   /\ k(4) = "Identifier" /\ k(5) = "Gt"
                THEN [value_type |-> ResultType(name(2), name(4)), pos |-> p1 + 6]
                ELSE [value_type |-> ValueTypeVoid, pos |-> p1 + 1]
          [] OTHER -> [value_type |-> ValueTypeVoid, pos |-> p1]

\* parse_return_type: [value_type, pos]
parse_return_type(ts, p) ==
    IF get_current_token(ts, p).kind # "Colon"
    THEN [value_type |-> ValueTypeVoid, pos |-> p]
    ELSE
    LET p1 == consume_token(ts, p)
        kind == get_current_token(ts, p1).kind
    IN  CASE kind = "Identifier" ->
                [value_type |-> string_to_value_type(get_current_token(ts, p1).text),
                 pos |-> consume_token(ts, p1)]
          [] kind = "Option" ->
                LET p2 == extract_token(ts, consume_token(ts, p1), "Lt")
                    some == type_argument(ts, p2)
                IN  [value_type |-> OptionType(some.value_type),
                     pos |-> extract_token(ts, some.pos, "Gt")]
          [] kind = "Result" ->
                LET p2 == extract_token(ts, consume_token(ts, p1), "Lt")
                    success == type_argument(ts, p2)
                    p3 == extract_token(ts, success.pos, "Comma")
                    failure == type_argument(ts, p3)
                IN  [value_type |-> ResultType(success.value_type, failure.value_type),
                     pos |-> consume_token(ts, failure.pos)]
          [] kind = "List" ->
                LET p2 == extract_token(ts, consume_token(ts, p1), "Lt")
                    element_type == type_argument(ts, p2)
                IN  [value_type |-> ValueTypeList(element_type.value_type),
                     pos |-> extract_token(ts, element_type.pos, "Gt")]
          [] OTHER -> [value_type |-> ValueTypeVoid, pos |-> p1]

\* ------------------------------------------------------------------ evals
VARIABLES
    asts,    \* the program handed to evals
    pc,      \* the index of the next statement of the for loop
    values,  \* the local Vec of evals
    env,     \* the Env the driver created
    ret,     \* what evals returned, or that the process panicked
    pre,     \* the Env before the statement evaluated last
    out      \* the outcome (st, v, err) of the statement evaluated last

VARIABLES
    entry,   \* what the parser was called for: parse_lambda, parse_return_type
    tokens,  \* the parser's token sequence
    pos,     \* the parser's cursor
    scopes,  \* the parser's scope stack
    frames,  \* the activations of parse_lambda, the innermost last
    turns,   \* the parity of the turns the parameter loop has taken
    presult  \* what the parser returned, or that it panicked

evars == <<asts, pc, values, env, ret, pre, out>>
pvars == <<entry, tokens, pos, scopes, frames, turns, presult>>
vars == <<evars, pvars>>

Running == [tag |-> "Running"]
NoOut == [st |-> "none", v |-> Void, err |-> "none"]
OutOf(r) == [st |-> r.st, v |-> r.v, err |-> r.err]

\* an evals that hands the values produced so far back with the failure
evals_err_with_values(vs, e) == [tag |-> "Err", e |-> e, values |-> vs]

\* what `?` makes evals return for a failed statement
evals_err(vs, e) == [tag |-> "Err", e |-> e]
\* what evals returns after the loop
evals_ok(vs) == [tag |-> "Ok", values |-> vs]

Init ==
    /\ asts \in Programs
    /\ pc = 1
    /\ values = <<>>
    /\ env = EnvNew
    /\ ret = Running
    /\ pre = EnvNew
    /\ out = NoOut
    /\ entry = "evals" /\ tokens = <<>> /\ pos = 1 /\ scopes = ParserScopes0
    /\ frames = <<>> /\ turns = 0 /\ presult = Running

\* values.push(eval(ast, env)?) for a statement that evaluates to a value
EvalsPush ==
    /\ ret = Running /\ pc <= Len(asts)
    /\ LET r == eval(asts[pc], env)
       IN  /\ r.st = "ok"
           /\ values' = Append(values, r.v)
           /\ env' = r.env /\ pre' = env /\ out' = OutOf(r)
    /\ pc' = pc + 1
    /\ UNCHANGED <<asts, ret>>
    /\ UNCHANGED pvars

\* an evals that drops a failed statement and goes on with the next
EvalsSkipFailed ==
    /\ ret = Running /\ pc <= Len(asts)
    /\ LET r == eval(asts[pc], env)
       IN  /\ r.st = "err"
           /\ env' = r.env /\ pre' = env /\ out' = OutOf(r)
    /\ pc' = pc + 1
    /\ UNCHANGED <<asts, values, ret>>
    /\ UNCHANGED pvars

\* values.push(eval(ast, env)?) for a statement that fails: evals returns
EvalsFail ==
    /\ ret = Running /\ pc <= Len(asts)
    /\ LET r == eval(asts[pc], env)
       IN  /\ r.st = "err"
           /\ ret' = evals_err(values, r.err)
           /\ env' = r.env /\ pre' = env /\ out' = OutOf(r)
    /\ UNCHANGED <<asts, pc, values>>
    /\ UNCHANGED pvars

\* a statement that panics ends the process
EvalsPanic ==
    /\ ret = Running /\ pc <= Len(asts)
    /\ LET r == eval(asts[pc], env)
       IN  /\ r.st = "panic"
           /\ ret' = [tag |-> "Panic", e |-> r.err]
           /\ env' = r.env /\ pre' = env /\ out' = OutOf(r)
    /\ UNCHANGED <<asts, pc, values>>
    /\ UNCHANGED pvars

\* Ok(values) after the last statement
EvalsReturn ==
    /\ ret = Running /\ pc > Len(asts)
    /\ ret' = evals_ok(values)
    /\ UNCHANGED <<asts, pc, values, env, pre, out>>
    /\ UNCHANGED pvars

Next == EvalsPush \/ EvalsFail \/ EvalsPanic \/ EvalsReturn

Spec == Init /\ [][Next]_vars

\* ------------------------------------------------------------------ parser runs
\* token sequences as the lexer hands them over: Eof comes last
LambdaAlphabet ==
    {Tok("Pipe"), Identifier("x"), Tok("Colon"), Tok("Comma"), Tok("RRocket"),
     Tok("Number"), Tok("BackSlash")}
ReturnTypeAlphabet ==
    {Tok("Colon"), Identifier("T"), Tok("Option"), Tok("Result"), Tok("List"),
     Tok("Lt"), Tok("Gt"), Tok("Comma")}

Kinds(ks) == [i \in 1..Len(ks) |-> IF ks[i] \in {"x", "T", "E"}
                                   THEN Identifier(ks[i]) ELSE Tok(ks[i])]

\* \|x: T| => 1, \|x: T| 1, \|x: T, x: T| => x, \x => { 1 x }, \x => { 1,
\* \|x: T| => \x => 1
LambdaScenarios ==
    {Kinds(<<"BackSlash", "Pipe", "x", "Colon", "T", "Pipe", "RRocket", "Number",
             "Eof">>),
     Kinds(<<"BackSlash", "Pipe", "x", "Colon", "T", "Pipe", "Number", "Eof">>),
     Kinds(<<"BackSlash", "Pipe", "x", "Colon", "T", "Comma", "x", "Colon", "T",
             "Pipe", "RRocket", "x", "Eof">>),
     Kinds(<<"BackSlash", "x", "RRocket", "LBrace", "Number", "x", "RBrace",
             "Eof">>),
     Kinds(<<"BackSlash", "x", "RRocket", "LBrace", "Number", "Eof">>),
     Kinds(<<"BackSlash", "Pipe", "x", "Colon", "T", "Pipe", "RRocket",
             "BackSlash", "x", "RRocket", "Number", "Eof">>)}

\* : Option<T> {, : List<T> {, : Result<T, E> {, : Result<T, E {, : Result<T> {
ReturnTypeScenarios ==
    {Kinds(<<"Colon", "Option", "Lt", "T", "Gt", "LBrace", "Eof">>),
     Kinds(<<"Colon", "List", "Lt", "T", "Gt", "LBrace", "Eof">>),
     Kinds(<<"Colon", "Result", "Lt", "T", "Comma", "E", "Gt", "LBrace", "Eof">>),
     Kinds(<<"Colon", "Result", "Lt", "T", "Comma", "E", "LBrace", "Eof">>),
     Kinds(<<"Colon", "Result", "Lt", "T", "Gt", "LBrace", "Eof">>)}

LambdaStreams ==
    {<<Tok("BackSlash")>> \o s \o <<Tok("Eof")>> :
        s \in SeqsUpTo(LambdaAlphabet, MaxTokens)} \cup LambdaScenarios
ReturnTypeStreams ==
    {s \o <<Tok("Eof")>> : s \in SeqsUpTo(ReturnTypeAlphabet, MaxTokens)}
    \cup ReturnTypeScenarios

LambdaFrame(pc_, arguments, body) ==
    [pc |-> pc_, arguments |-> arguments, body |-> body]
top == frames[Len(frames)]
SetTop(frame) == [frames EXCEPT ![Len(frames)] = frame]

ParseOk(node) == [tag |-> "Ok", node |-> node]
ParseTypeOk(value_type) == [tag |-> "Ok", value_type |-> value_type]
ParseError == [tag |-> "Err", e |-> "ParseError"]
ParsePanic == [tag |-> "Panic", e |-> "called Option::unwrap() on a None value"]

ParserInit ==
    /\ entry \in {"parse_lambda", "parse_return_type"}
    /\ tokens \in IF entry = "parse_lambda" THEN LambdaStreams ELSE ReturnTypeStreams
    /\ pos = 1
    /\ scopes = ParserScopes0
    /\ frames = IF entry = "parse_lambda"
                THEN <<LambdaFrame("begin", <<>>, NoNode)>> ELSE <<>>
    /\ turns = 0
    /\ presult = Running
    /\ asts = <<>> /\ pc = 1 /\ values = <<>> /\ env = EnvNew /\ ret = Running
    /\ pre = EnvNew /\ out = NoOut

\* parse_lambda up to the parameter list: the backslash is consumed, the
\* "lambda" scope is entered, a bare parameter is read
LambdaStart ==
    /\ presult = Running /\ frames # <<>> /\ top.pc = "begin"
    /\ scopes' = parser_enter_scope(scopes, "lambda")
    /\ LET p1 == consume_token(tokens, pos)
           token == get_current_token(tokens, p1)
           p2 == extract_token(tokens, consume_token(tokens, p1), "Colon")
       IN  CASE token.kind = "Pipe" ->
                   /\ pos' = consume_token(tokens, p1)
                   /\ frames' = SetTop([top EXCEPT !.pc = "params"])
             [] token.kind = "Identifier" ->
                   /\ pos' = consume_token(tokens, p2)
                   /\ frames' = SetTop([top EXCEPT !.pc = "arrow",
                          !.arguments = <<TypedVariable(token.text,
                                             value_type_here(tokens, p2))>>])
             [] OTHER ->
                   /\ pos' = p1
                   /\ frames' = SetTop([top EXCEPT !.pc = "arrow"])
    /\ UNCHANGED <<entry, tokens, turns, presult>>
    /\ UNCHANGED evars

\* one turn of the `while let` loop over the |...| parameter list
LambdaParam ==
    /\ presult = Running /\ frames # <<>> /\ top.pc = "params"
    /\ LET token == get_current_token(tokens, pos)
           p2 == extract_token(tokens, consume_token(tokens, pos), "Colon")
           value_type == value_type_here(tokens, p2)
       IN  CASE token = NoToken ->
                   /\ frames' = SetTop([top EXCEPT !.pc = "arrow"])
                   /\ UNCHANGED <<pos, scopes, presult>>
             [] token.kind = "Pipe" ->
                   /\ pos' = consume_token(tokens, pos)
                   /\ frames' = SetTop([top EXCEPT !.pc = "arrow"])
                   /\ UNCHANGED <<scopes, presult>>
             [] token.kind = "Comma" ->
                   /\ pos' = consume_token(tokens, pos)
                   /\ UNCHANGED <<frames, scopes, presult>>
             [] token.kind = "Identifier" /\ value_type = None ->
                   /\ pos' = p2
                   /\ presult' = ParsePanic
                   /\ frames' = <<>>
                   /\ UNCHANGED scopes
             [] token.kind = "Identifier" /\ value_type # None ->
                   /\ pos' = consume_token(tokens, p2)
                   /\ frames' = SetTop([top EXCEPT !.arguments =
                          Append(@, TypedVariable(token.text, value_type))])
                   /\ scopes' = register_variables(scopes, token.text)
                   /\ UNCHANGED presult
             [] OTHER -> UNCHANGED <<pos, frames, scopes, presult>>
    /\ turns' = 1 - turns
    /\ UNCHANGED <<entry, tokens>>
    /\ UNCHANGED evars

\* self.extract_token(TokenKind::RRocket)
LambdaArrow ==
    /\ presult = Running /\ frames # <<>> /\ top.pc = "arrow"
    /\ pos' = extract_token(tokens, pos, "RRocket")
    /\ frames' = SetTop([top EXCEPT !.pc = "body"])
    /\ UNCHANGED <<entry, tokens, scopes, turns, presult>>
    /\ UNCHANGED evars

\* the body: parse_block at a left brace, else parse_expression(0), which
\* calls parse_lambda at a backslash; a ParseError leaves through `?`
LambdaBody ==
    /\ presult = Running /\ frames # <<>> /\ top.pc = "body"
    /\ LET token == get_current_token(tokens, pos)
           r == IF token.kind = "LBrace" THEN parse_block(tokens, pos)
                ELSE parse_expression(tokens, pos)
       IN  IF token.kind = "BackSlash"
           THEN /\ frames' = Append(SetTop([top EXCEPT !.pc = "wait"]),
                                    LambdaFrame("begin", <<>>, NoNode))
                /\ UNCHANGED <<pos, presult>>
           ELSE IF r.ok
           THEN /\ frames' = SetTop([top EXCEPT !.pc = "finish", !.body = r.node])
                /\ pos' = r.pos
                /\ UNCHANGED presult
           ELSE /\ frames' = <<>>
                /\ pos' = r.pos
                /\ presult' = ParseError
    /\ UNCHANGED <<entry, tokens, scopes, turns>>
    /\ UNCHANGED evars

\* self.leave_scope(); Ok(result): to the caller, or to the lambda whose body
\* this lambda is
LambdaFinish ==
    /\ presult = Running /\ frames # <<>> /\ top.pc = "finish"
    /\ scopes' = parser_leave_scope(scopes)
    /\ LET node == Lambda(top.arguments, top.body)
           rest == SubSeq(frames, 1, Len(frames) - 1)
       IN  IF Len(frames) = 1
           THEN frames' = <<>> /\ presult' = ParseOk(node)
           ELSE /\ frames' = [rest EXCEPT ![Len(rest)] =
                                 [@ EXCEPT !.pc = "finish", !.body = node]]
                /\ UNCHANGED presult
    /\ UNCHANGED <<entry, tokens, pos, turns>>
    /\ UNCHANGED evars

ParseReturnType ==
    /\ presult = Running /\ entry = "parse_return_type"
    /\ LET r == parse_return_type(tokens, pos)
       IN  pos' = r.pos /\ presult' = ParseTypeOk(r.value_type)
    /\ UNCHANGED <<entry, tokens, scopes, frames, turns>>
    /\ UNCHANGED evars

ParserNext ==
    \/ LambdaStart \/ LambdaParam \/ LambdaArrow \/ LambdaBody \/ LambdaFinish
    \/ ParseReturnType

ParserSpec == ParserInit /\ [][ParserNext]_vars

\* the parser is one sequential call: it takes its next step as long as it has one
ParserLiveSpec == ParserSpec /\ WF_vars(ParserNext)

\* ------------------------------------------------------------------ claims
\* the index of the statement evaluated last (0: none yet)
Last == IF ret.tag \in {"Err", "Panic"} THEN pc ELSE pc - 1
LastIs(kind) == Last >= 1 /\ asts[Last].k = kind

BoundNames(e) ==
    UNION {DOMAIN e.scope_stack[i].vars : i \in 1..Len(e.scope_stack)}

\* the declared parameter count of what a FunctionCall of `name` resolves to, -1
\* when it resolves to nothing
ParamCount(e, name) ==
    IF get_function(e, name) # None THEN Len(get_function(e, name).arguments)
    ELSE IF get_builtin(e, name) # None THEN Len(get_builtin(e, name).arguments)
    ELSE IF get(e, name, "Lambda") # None THEN Len(get(e, name, "Any").value.arguments)
    ELSE -1

\* C1: leak-back. With global mutable z = 3, f1(2, 0) returns 6 and leaves the
\* global z at 4 and d unbound; f2(2, 0) then returns 6 as well.
C1_LeakBack ==
    asts = leak_back =>
        /\ Last = 4 =>
              /\ out.st = "ok" /\ out.v = Number(6)
              /\ get(env, "z", "Any") # None
              /\ get(env, "z", "Any").value = Number(4)
              /\ get(env, "d", "Any") = None
        /\ Last = 5 => out.st = "ok" /\ out.v = Number(6)

\* C2: locals never leak. A call of a user function with as many arguments as
\* parameters returns, and no name that was unbound before the call is bound
\* after it.
C2_LocalsNeverLeak ==
    (/\ LastIs("FunctionCall")
     /\ get_function(pre, asts[Last].name) # None
     /\ Len(asts[Last].arguments.args) = ParamCount(pre, asts[Last].name))
    => /\ out.st = "ok"
       /\ BoundNames(env) \subseteq BoundNames(pre)

\* C3: mutability rule. An Assign with is_new = false of a literal to a name
\* whose binding is Immutable fails with the reassign-immutable error and
\* leaves the environment as it was; to a name whose binding is Mutable it
\* succeeds, evaluates to the new value, and a lookup returns the new value.
C3_MutabilityRule ==
    (/\ LastIs("Assign") /\ ~asts[Last].is_new
     /\ asts[Last].value.k = "Literal"
     /\ get(pre, asts[Last].name, "Any") # None)
    => IF get(pre, asts[Last].name, "Any").variable_type = "Immutable"
       THEN /\ out.st = "err" /\ out.err = ReassignImmutable
            /\ env = pre
            /\ ret.tag = "Err"
       ELSE /\ out.st = "ok" /\ out.v = asts[Last].value.value
            /\ get(env, asts[Last].name, "Any").value = asts[Last].value.value

\* z declared Mutable and reassigned, then declared Immutable and reassigned
C3_Witness ==
    /\ asts = overwrite(0, 1) /\ Last = 4
    /\ values = <<Number(0), Number(1), Number(0)>>
    /\ out.err = ReassignImmutable
    /\ get(env, "z", "Any").value = Number(0)

\* C4: arity. A FunctionCall whose argument count differs from the parameter
\* count of the callable it resolves to (user function, builtin, lambda) fails
\* with the arity-mismatch error, and nothing is called.
C4_ArityMismatch ==
    (/\ LastIs("FunctionCall")
     /\ ParamCount(pre, asts[Last].name) >= 0
     /\ Len(asts[Last].arguments.args) # ParamCount(pre, asts[Last].name))
    => /\ out.st # "ok" /\ out.err = ArityMismatch
       /\ env = pre

\* C5: a Block whose first statement is a Return of a literal evaluates no
\* later statement and its result is Return(v), still wrapped.
C5_BlockPropagatesReturn ==
    (/\ LastIs("Block") /\ Len(asts[Last].nodes) >= 1
     /\ asts[Last].nodes[1].k = "Return"
     /\ asts[Last].nodes[1].expr.k = "Literal")
    => /\ out.st = "ok"
       /\ out.v = ReturnValue(asts[Last].nodes[1].expr.value)
       /\ env = pre

\* C6: a For over a non-empty literal list whose body is a Block that returns
\* the loop variable ends in its first iteration and yields Return(first item).
C6_ForEarlyExit ==
    (/\ LastIs("For")
     /\ asts[Last].iterable.k = "Literal" /\ asts[Last].iterable.value.t = "List"
     /\ Len(asts[Last].iterable.value.items) >= 1
     /\ asts[Last].body = Block(<<Return(Variable(asts[Last].variable))>>))
    => /\ out.st = "ok"
       /\ out.v = ReturnValue(asts[Last].iterable.value.items[1])

\* C7: capture is fixed at creation. g = \x => x + z created while z = a, then
\* z reassigned to b at top level: the body of g(0) evaluates to a.
C7_CaptureFixedAtCreation ==
    \A a, b \in Vals :
        (asts = lambda_capture(a, b) /\ Last = 4) => out.v = Number(a)

\* C8: the body runs against the captured environment. g = \x => y created
\* while y is unbound, then y bound at the call site: the body of g(0) does not
\* read the call site's y.
C8_BodyAgainstCapturedEnv ==
    \A v \in Vals :
        (asts = lambda_call_site(v) /\ Last = 3) => out.v # Number(v)

\* C9: no element of the list evals returns is a Value::Return.
C9_ReturnNeverObservable ==
    ret.tag = "Ok" => \A i \in 1..Len(ret.values) : ret.values[i].t # "Return"

\* C10, as stated: when a statement after the first fails, what evals returns
\* holds the values of the statements before it, together with the failure.
C10_ValuesKeptWithFailure ==
    (ret.tag = "Err" /\ Len(values) >= 1)
    => ("values" \in DOMAIN ret /\ ret.values = values)

\* C10, amended: when the k-th statement is the first to fail, what evals
\* returns is the failure alone, the error of that statement; the k-1 values
\* pushed before it are not part of it.
C10_FailureAlone ==
    ret.tag = "Err"
    => /\ DOMAIN ret = {"tag", "e"}
       /\ out.st = "err" /\ ret.e = out.err
       /\ Len(values) = pc - 1
       /\ eval(asts[pc], pre).st = "err"

\* the third statement fails after two values were pushed
C10_Witness ==
    ret.tag = "Err" /\ pc = 3 /\ Len(values) = 2

\* the FunctionCall evaluated last, when its arguments are a FunctionCallArgs
LastCall == LastIs("FunctionCall") /\ asts[Last].arguments.k = "FunctionCallArgs"
LastArgs == asts[Last].arguments.args
InFunctions == get_function(pre, asts[Last].name) # None
InBuiltins == get_builtin(pre, asts[Last].name) # None
IsLambda == get(pre, asts[Last].name, "Lambda") # None
ArgsAre(kinds) == \A i \in 1..Len(LastArgs) : LastArgs[i].k \in kinds

\* the call evaluated last pushes a scope: a user function, or a lambda
ScopedCall == LastCall /\ (InFunctions \/ (~InBuiltins /\ IsLambda))
CalleeParams ==
    IF InFunctions THEN get_function(pre, asts[Last].name).arguments
    ELSE get(pre, asts[Last].name, "Any").value.arguments
CalleeBody ==
    IF InFunctions THEN get_function(pre, asts[Last].name).body
    ELSE get(pre, asts[Last].name, "Any").value.body

\* C11: eval is total. No evaluation ends the process: each yields a value or
\* a RuntimeError; a node with no evaluation rule (Continue, a bare
\* FunctionCallArgs) fails with the Unsupported error; a call of an undefined
\* name, with a wrong argument count or with a malformed parameter or argument
\* node yields a RuntimeError.
C11_EvalTotal ==
    /\ out.st # "panic"
    /\ (LastIs("Continue") \/ LastIs("FunctionCallArgs"))
          => (out.st = "err" /\ out.err = Unsupported)
    /\ asts \in {undefined_call, argument_mismatch, malformed_arguments,
                 malformed_param} /\ Last = Len(asts)
          => out.st = "err"

\* C12: resolution order. A FunctionCall of a name in neither table and bound
\* to no lambda fails with "Function is missing"; of a name in the builtin table
\* only (a variable may hold a lambda under that name) it calls the builtin; of a
\* name in the user table it evaluates the user function's body, whether the
\* name is also a builtin or a variable holding a lambda; a lambda's body is
\* evaluated only for a name in neither table.
C12_ResolutionOrder ==
    /\ (LastCall /\ ~InFunctions /\ ~InBuiltins /\ ~IsLambda)
          => (out.st # "ok" /\ out.err = FunctionIsMissing)
    /\ (LastCall /\ ~InFunctions /\ InBuiltins /\ ArgsAre({"Literal"}))
          => (out.st = "ok"
              /\ out.v = native_fn([i \in 1..Len(LastArgs) |-> LastArgs[i].value]))
    /\ \A v \in Vals :
          (asts = user_over_builtin(v) /\ Last = 2) => out.v = ReturnValue(Number(v))
    /\ \A a, b \in Vals :
          (asts = function_over_lambda(a, b) /\ Last = 3)
              => out.v = ReturnValue(Number(b))
    /\ \A v \in Vals :
          (asts = lambda_return(v) /\ Last = 2) => out.v = ReturnValue(Number(v))

\* a user function named as the builtin was declared and called: its body ran
C12_Witness ==
    /\ asts = user_over_builtin(1) /\ Last = 2
    /\ get_function(pre, BuiltinName) # None /\ get_builtin(pre, BuiltinName) # None
    /\ out.v = ReturnValue(Number(1))

\* the environment after the first n statements of a program evaluated
RECURSIVE EnvAfter(_, _)
EnvAfter(prog, n) ==
    IF n = 0 THEN EnvNew ELSE eval(prog[n], EnvAfter(prog, n - 1)).env

\* C13: evals stops at the first failure. Once a statement failed with a
\* RuntimeError evals has returned the failure and no later statement is
\* evaluated; the environment the failing statement started from is the one
\* the statements before it produced, and every binding it held is still in the
\* environment, unchanged.
C13_StopsAtFirstFailure ==
    out.st = "err"
    => /\ ret.tag = "Err" /\ Last = pc
       /\ Len(values) = pc - 1
       /\ pre = EnvAfter(asts, pc - 1)
       /\ \A n \in BoundNames(pre) : get(env, n, "Any") = get(pre, n, "Any")

\* z = 1 was bound, the second statement failed, z = 0 was never evaluated
C13_Witness ==
    /\ asts = stop_at_failure(1, 0) /\ ret.tag = "Err" /\ pc = 2
    /\ get(env, "z", "Any") # None /\ get(env, "z", "Any").value = Number(1)

\* C14: scope push and pop are balanced. After a FunctionCall is over, by
\* completion or by an error in an argument or in the body, the scope stack is
\* as deep as it was before the call.
C14_ScopeBalanced ==
    LastIs("FunctionCall") => Len(env.scope_stack) = Len(pre.scope_stack)

\* C15: parameters are Immutable slots. In a call of a user function or of a
\* lambda with literal arguments, whose body is a Block that starts with an
\* Assign (is_new = false) of a literal to a parameter, the call fails with the
\* reassign-immutable error and each parameter is a slot of the pushed frame
\* holding its argument's value, Immutable, typed as declared or Any.
C15_ParamsImmutable ==
    (/\ ScopedCall /\ ArgsAre({"Literal"})
     /\ params_are_variables(CalleeParams)
     /\ Len(LastArgs) = Len(CalleeParams)
     /\ CalleeBody.k = "Block" /\ Len(CalleeBody.nodes) >= 1
     /\ CalleeBody.nodes[1].k = "Assign" /\ ~CalleeBody.nodes[1].is_new
     /\ CalleeBody.nodes[1].value.k = "Literal"
     /\ \E i \in 1..Len(CalleeParams) :
            CalleeParams[i].name = CalleeBody.nodes[1].name)
    => /\ out.st = "err" /\ out.err = ReassignImmutable
       /\ Len(env.scope_stack) = Len(pre.scope_stack) + 1
       /\ \A i \in 1..Len(CalleeParams) :
             /\ CalleeParams[i].name
                    \in DOMAIN env.scope_stack[Len(env.scope_stack)].vars
             /\ env.scope_stack[Len(env.scope_stack)].vars[CalleeParams[i].name]
                    = Slot(LastArgs[i].value, "Immutable",
                           unwrap_or_any(CalleeParams[i].value_type))

\* p(x: Number) { x = 0; ... } was called as p(1): x is still 1, and
\* g = \x => { x = 0 } as g(1): x is still 1
C15_Witness ==
    \/ /\ asts = param_reassign(1, 0) /\ Last = 2 /\ out.err = ReassignImmutable
       /\ get(env, "x", "Any") = Slot(Number(1), "Immutable", "Number")
    \/ /\ asts = lambda_param_reassign(1, 0) /\ Last = 2
       /\ out.err = ReassignImmutable
       /\ get(env, "x", "Any") = Slot(Number(1), "Immutable", "Any")

\* C16: a builtin call pushes no scope. A FunctionCall that resolves to a
\* builtin, with literals and variables as arguments, leaves the environment
\* as it was, and when every argument evaluates it yields what the native
\* callable makes of the argument values in argument order.
C16_BuiltinNoScope ==
    (LastCall /\ ~InFunctions /\ InBuiltins /\ ArgsAre({"Literal", "Variable"}))
    => /\ env = pre
       /\ (\A i \in 1..Len(LastArgs) : eval(LastArgs[i], pre).st = "ok")
             => /\ out.st = "ok"
                /\ out.v = native_fn([i \in 1..Len(LastArgs) |->
                                         eval(LastArgs[i], pre).v])

\* the builtin was called with the value of a bound z, and with 0 and 1
C16_Witness ==
    /\ LastCall /\ ~InFunctions /\ InBuiltins /\ out.st = "ok"
    /\ \/ /\ LastArgs = <<Variable("z")>> /\ get(pre, "z", "Any") # None
          /\ out.v = ListValue(<<get(pre, "z", "Any").value>>)
       \/ /\ LastArgs = <<Num(0), Num(1)>>
          /\ out.v = ListValue(<<Number(0), Number(1)>>)

\* C17: Assign on an unbound name. An Assign of a literal to a name with no
\* binding succeeds whether is_new is false or true, evaluates to the value,
\* and binds the name to the value with the mutability the node carries.
C17_AssignUnbound ==
    (/\ LastIs("Assign") /\ asts[Last].value.k = "Literal"
     /\ get(pre, asts[Last].name, "Any") = None)
    => /\ out.st = "ok" /\ out.v = asts[Last].value.value
       /\ get(env, asts[Last].name, "Any") # None
       /\ get(env, asts[Last].name, "Any").value = asts[Last].value.value
       /\ get(env, asts[Last].name, "Any").variable_type = asts[Last].variable_type

\* z = 1 assigned with is_new = false, Immutable, in the fresh environment
C17_Witness ==
    /\ Last = 1 /\ asts[1] = Assign("z", Num(1), "Immutable", FALSE)
    /\ pre = EnvNew /\ out.st = "ok" /\ out.v = Number(1)
    /\ get(env, "z", "Any") = Slot(Number(1), "Immutable", "Number")

\* the kind of the i-th token of the sequence the parser was given
KindAt(i) == get_current_token(tokens, i).kind
\* the type argument at the i-th token: the identifier there, else Void
ArgAt(i) ==
    IF KindAt(i) = "Identifier"
    THEN string_to_value_type(get_current_token(tokens, i).text) ELSE ValueTypeVoid

\* the index of the `|` that closes the parameter list opened at token 2, 0
\* when no `|` follows
PipeListEnd ==
    IF \E i \in 3..Len(tokens) : KindAt(i) = "Pipe"
    THEN CHOOSE i \in 3..Len(tokens) :
            KindAt(i) = "Pipe" /\ \A j \in 3..(i - 1) : KindAt(j) # "Pipe"
    ELSE 0
\* a closed |...| parameter list followed by a token that is not `=>`
ArrowAbsent == KindAt(2) = "Pipe" /\ PipeListEnd > 0 /\ KindAt(PipeListEnd + 1) # "RRocket"
\* a parameter list opened with `|` and never closed
PipeUnclosed == KindAt(2) = "Pipe" /\ PipeListEnd = 0

\* C18: parse_lambda fails with a ParseError when a required token is absent.
\* For a token sequence whose closed |...| parameter list is not followed by
\* `=>`, or whose parameter list opened with `|` is never closed, parse_lambda
\* returns nothing but a ParseError: no Ok with a Lambda node, no panic.
C18_MissingTokenFails ==
    (entry = "parse_lambda" /\ (ArrowAbsent \/ PipeUnclosed))
    => presult.tag \in {"Running", "Err"}

\* C19: the "lambda" scope is always discarded. When parse_lambda has
\* returned, with Ok or with a ParseError, the parser's scope stack is what it
\* was on entry.
C19_LambdaScopeDiscarded ==
    (entry = "parse_lambda" /\ presult.tag \in {"Ok", "Err"})
    => scopes = ParserScopes0

\* an annotation : Option<T>, : List<T> or : Result<T, E>
WellFormedOption ==
    /\ KindAt(2) \in {"Option", "List"} /\ KindAt(3) = "Lt"
    /\ KindAt(4) = "Identifier" /\ KindAt(5) = "Gt"
WellFormedResult ==
    /\ KindAt(2) = "Result" /\ KindAt(3) = "Lt" /\ KindAt(4) = "Identifier"
    /\ KindAt(5) = "Comma" /\ KindAt(6) = "Identifier" /\ KindAt(7) = "Gt"
StartsGeneric == KindAt(1) = "Colon" /\ KindAt(2) \in {"Option", "Result", "List"}
ReturnTypeParsed == entry = "parse_return_type" /\ presult.tag = "Ok"

FirstArg == IF KindAt(3) = "Lt" THEN 4 ELSE 3
\* where the second type argument of Result stands: after the first type
\* argument, when there is one, and after the `,`, when there is one
SecondArg ==
    LET i == IF KindAt(FirstArg) = "Identifier" THEN FirstArg + 1 ELSE FirstArg
    IN  IF KindAt(i) = "Comma" THEN i + 1 ELSE i

C21_LambdaTerminates ==
    (entry = "parse_lambda") => <>(presult.tag # "Running")

\* C22: argument expressions see the caller's bindings. In f(b, x) for
\* fn f(x, y) the second argument reads the caller's x: with a caller's x = a
\* the parameter y is bound to a, not to the b just bound to the parameter x;
\* with no caller's x the call fails with the undefined-variable error.
C22_ArgumentsSeeCaller ==
    /\ \A a, b \in Vals :
          (asts = later_argument(a, b) /\ Last = 3)
              => get(env, "y", "Any") = Slot(Number(a), "Immutable", "Any")
    /\ \A b \in Vals :
          (asts = later_argument_unbound(b) /\ Last = 2)
              => (out.st = "err" /\ out.err = UndefinedVariable)

\* C23: shadowing does not clobber the caller. With an Immutable x = a of the
\* caller, a call that binds a parameter x, or declares a local x, to b and
\* never reassigns the outer x returns b, and afterwards the caller's x is a and
\* Immutable as before, in the scope the call started from.
C23_ShadowingKeepsCaller ==
    \A a, b \in Vals :
        ((asts = shadow_param(a, b) \/ asts = shadow_local(a, b)) /\ Last = 3)
        => /\ out.st = "ok" /\ out.v = Number(b)
           /\ Len(env.scope_stack) = Len(pre.scope_stack)
           /\ get(env, "x", "Any") = Slot(Number(a), "Immutable", "Number")

====
